---- MODULE Spec2Model ----
(***************************************************************************)
(* Model of dating_tracker.py: a single-threaded command loop over a       *)
(* SQLite store with two tables, contacts and notes.                       *)
(*                                                                         *)
(* Text is modelled as a sequence of one-character strings, so that the    *)
(* conversions the program applies to what the user types (strip, lower,   *)
(* split, int, LIKE, strftime, strptime, TEXT comparison) are computed     *)
(* rather than assumed.                                                    *)
(***************************************************************************)
EXTENDS Integers, Sequences, FiniteSets, TLC

\* ------------------------------------------------------------------------
\* Bound of the model: a run inserts rows and lets days pass at most this
\* many times in all.
\* ------------------------------------------------------------------------
MaxGrowth == 3

\* ------------------------------------------------------------------------
\* Text
\* ------------------------------------------------------------------------

\* Code points (ASCII) of the characters the typed texts are made of.
Code ==
    (" " :> 32) @@ ("!" :> 33) @@ ("%" :> 37) @@ ("+" :> 43) @@ ("," :> 44) @@
    ("-" :> 45) @@ ("." :> 46) @@ ("0" :> 48) @@ ("1" :> 49) @@ ("2" :> 50) @@
    ("3" :> 51) @@ ("4" :> 52) @@ ("5" :> 53) @@ ("6" :> 54) @@ ("7" :> 55) @@
    ("8" :> 56) @@ ("9" :> 57) @@ (":" :> 58) @@ ("?" :> 63) @@ ("A" :> 65) @@
    ("B" :> 66) @@ ("C" :> 67) @@ ("D" :> 68) @@ ("E" :> 69) @@ ("F" :> 70) @@
    ("G" :> 71) @@ ("H" :> 72) @@ ("I" :> 73) @@ ("J" :> 74) @@ ("K" :> 75) @@
    ("L" :> 76) @@ ("M" :> 77) @@ ("N" :> 78) @@ ("O" :> 79) @@ ("P" :> 80) @@
    ("Q" :> 81) @@ ("R" :> 82) @@ ("S" :> 83) @@ ("T" :> 84) @@ ("U" :> 85) @@
    ("V" :> 86) @@ ("W" :> 87) @@ ("X" :> 88) @@ ("Y" :> 89) @@ ("Z" :> 90) @@
    ("_" :> 95) @@ ("a" :> 97) @@ ("b" :> 98) @@ ("c" :> 99) @@ ("d" :> 100) @@
    ("e" :> 101) @@ ("f" :> 102) @@ ("g" :> 103) @@ ("h" :> 104) @@ ("i" :> 105) @@
    ("j" :> 106) @@ ("k" :> 107) @@ ("l" :> 108) @@ ("m" :> 109) @@ ("n" :> 110) @@
    ("o" :> 111) @@ ("p" :> 112) @@ ("q" :> 113) @@ ("r" :> 114) @@ ("s" :> 115) @@
    ("t" :> 116) @@ ("u" :> 117) @@ ("v" :> 118) @@ ("w" :> 119) @@ ("x" :> 120) @@
    ("y" :> 121) @@ ("z" :> 122)

Chr(n) == CHOOSE c \in DOMAIN Code : Code[c] = n

IsUpper(c) == Code[c] >= 65 /\ Code[c] <= 90

IsDigit(c) == Code[c] >= 48 /\ Code[c] <= 57

IsSpace(c) == c = " "

\* str.lower() on one character and on a text.
LowerChar(c) == IF IsUpper(c) THEN Chr(Code[c] + 32) ELSE c

Lower(s) == [i \in 1..Len(s) |-> LowerChar(s[i])]

\* str.strip(): leading and trailing whitespace removed.
RECURSIVE LStrip(_)
LStrip(s) == IF s # <<>> /\ IsSpace(Head(s)) THEN LStrip(Tail(s)) ELSE s

RECURSIVE RStrip(_)
RStrip(s) ==
    IF s # <<>> /\ IsSpace(s[Len(s)]) THEN RStrip(SubSeq(s, 1, Len(s) - 1)) ELSE s

Strip(s) == RStrip(LStrip(s))

\* Length of the leading run of non-whitespace characters.
RECURSIVE TokenLen(_)
TokenLen(s) == IF s = <<>> \/ IsSpace(Head(s)) THEN 0 ELSE 1 + TokenLen(Tail(s))

\* str.split(maxsplit=n) with the default separator: runs of whitespace
\* separate the tokens, and after n splits the remainder is one token with
\* its leading whitespace removed.
RECURSIVE Split(_, _)
Split(s, n) ==
    LET t == LStrip(s) IN
    IF t = <<>> THEN <<>>
    ELSE IF n = 0 THEN <<t>>
    ELSE LET k == TokenLen(t) IN
         <<SubSeq(t, 1, k)>> \o Split(SubSeq(t, k + 1, Len(t)), n - 1)

\* Comparison of two TEXT values under SQLite's BINARY collation.
RECURSIVE TextLess(_, _)
TextLess(a, b) ==
    IF b = <<>> THEN FALSE
    ELSE IF a = <<>> THEN TRUE
    ELSE IF Code[Head(a)] # Code[Head(b)] THEN Code[Head(a)] < Code[Head(b)]
    ELSE TextLess(Tail(a), Tail(b))

\* SQLite's LIKE: % matches any run of characters, _ matches one character,
\* ASCII letters match regardless of case, there is no escape character.
RECURSIVE Like(_, _)
Like(s, p) ==
    IF p = <<>> THEN s = <<>>
    ELSE IF Head(p) = "%" THEN
        Like(s, Tail(p)) \/ (s # <<>> /\ Like(Tail(s), p))
    ELSE IF s = <<>> THEN FALSE
    ELSE IF Head(p) = "_" \/ LowerChar(Head(p)) = LowerChar(Head(s)) THEN
        Like(Tail(s), Tail(p))
    ELSE FALSE

\* Value of a run of decimal digits.
RECURSIVE DigitsValue(_)
DigitsValue(s) ==
    IF s = <<>> THEN 0
    ELSE DigitsValue(SubSeq(s, 1, Len(s) - 1)) * 10 + (Code[s[Len(s)]] - 48)

AllDigits(s) == s # <<>> /\ \A i \in 1..Len(s) : IsDigit(s[i])

DigitChar == <<"0", "1", "2", "3", "4", "5", "6", "7", "8", "9">>

\* Decimal text of a natural number, zero-padded to at least w characters.
RECURSIVE Decimal(_, _)
Decimal(n, w) ==
    IF n < 10 /\ w <= 1 THEN <<DigitChar[n + 1]>>
    ELSE Decimal(n \div 10, w - 1) \o <<DigitChar[(n % 10) + 1]>>

\* int(text): an optional sign, then digits in which single underscores may
\* separate digits; on anything else (~IntValid) int raises ValueError.
IntBody(s) == IF s # <<>> /\ Head(s) \in {"+", "-"} THEN Tail(s) ELSE s

IntValid(s) ==
    LET b == IntBody(s) IN
    /\ b # <<>>
    /\ IsDigit(b[1]) /\ IsDigit(b[Len(b)])
    /\ \A i \in 1..Len(b) : IsDigit(b[i]) \/ b[i] = "_"
    /\ \A i \in 1..(Len(b) - 1) : ~(b[i] = "_" /\ b[i + 1] = "_")

ParseInt(s) ==
    LET d == SelectSeq(IntBody(s), IsDigit)
    IN IF Head(s) = "-" THEN 0 - DigitsValue(d) ELSE DigitsValue(d)

\* ------------------------------------------------------------------------
\* Calendar (datetime): days are counted from 1970-01-01
\* ------------------------------------------------------------------------
DaysFromCivil(y0, m, d) ==
    LET y == IF m <= 2 THEN y0 - 1 ELSE y0
        era == y \div 400
        yoe == y - era * 400
        mp == IF m > 2 THEN m - 3 ELSE m + 9
        doy == (153 * mp + 2) \div 5 + d - 1
        doe == yoe * 365 + yoe \div 4 - yoe \div 100 + doy
    IN era * 146097 + doe - 719468

CivilFromDays(z0) ==
    LET z == z0 + 719468
        era == z \div 146097
        doe == z - era * 146097
        yoe == (doe - doe \div 1460 + doe \div 36524 - doe \div 146096) \div 365
        doy == doe - (365 * yoe + yoe \div 4 - yoe \div 100)
        mp == (5 * doy + 2) \div 153
        d == doy - (153 * mp + 2) \div 5 + 1
        m == IF mp < 10 THEN mp + 3 ELSE mp - 9
        y == yoe + era * 400 + (IF m <= 2 THEN 1 ELSE 0)
    IN [y |-> y, m |-> m, d |-> d]

IsLeap(y) == (y % 4 = 0 /\ y % 100 # 0) \/ y % 400 = 0

DaysInMonth(y, m) ==
    IF m = 2 THEN (IF IsLeap(y) THEN 29 ELSE 28)
    ELSE IF m \in {4, 6, 9, 11} THEN 30 ELSE 31

\* strftime("%Y-%m-%d") of a day.
FormatDate(day) ==
    LET c == CivilFromDays(day) IN
    Decimal(c.y, 4) \o <<"-">> \o Decimal(c.m, 2) \o <<"-">> \o Decimal(c.d, 2)

\* Position of the first "-" in a text, 0 if there is none.
RECURSIVE DashPos(_)
DashPos(s) ==
    IF s = <<>> THEN 0
    ELSE IF Head(s) = "-" THEN 1
    ELSE LET r == DashPos(Tail(s)) IN IF r = 0 THEN 0 ELSE r + 1

\* datetime.strptime(text, "%Y-%m-%d") takes four digits of year and one or
\* two digits of month and of day, of a date that exists; on anything else
\* (~DateValid) it raises ValueError.
DateParts(s) ==
    LET p1 == DashPos(s)
        r1 == SubSeq(s, p1 + 1, Len(s))
        p2 == DashPos(r1)
    IN [ok |-> p1 # 0 /\ p2 # 0,
        y |-> SubSeq(s, 1, p1 - 1),
        m |-> SubSeq(r1, 1, p2 - 1),
        d |-> SubSeq(r1, p2 + 1, Len(r1))]

DateValid(s) ==
    LET p == DateParts(s) IN
    /\ p.ok
    /\ AllDigits(p.y) /\ AllDigits(p.m) /\ AllDigits(p.d)
    /\ Len(p.y) = 4 /\ Len(p.m) <= 2 /\ Len(p.d) <= 2
    /\ DigitsValue(p.y) >= 1
    /\ DigitsValue(p.m) >= 1 /\ DigitsValue(p.m) <= 12
    /\ DigitsValue(p.d) >= 1
    /\ DigitsValue(p.d) <= DaysInMonth(DigitsValue(p.y), DigitsValue(p.m))

\* The day number of a text that strptime accepts.
ParseDate(s) ==
    LET p == DateParts(s) IN
    DaysFromCivil(DigitsValue(p.y), DigitsValue(p.m), DigitsValue(p.d))

\* ------------------------------------------------------------------------
\* State
\* ------------------------------------------------------------------------
VARIABLES
    contacts,          \* table contacts: id -> row
    notes,             \* table notes: id -> row
    sqlite_sequence,   \* AUTOINCREMENT counters: largest rowid ever used, per table
    now,               \* the clock, as a day number
    pc,                \* position of main: "prompt" or "exited"
    out                \* the last command: what was typed and what was printed

vars == <<contacts, notes, sqlite_sequence, now, pc, out>>

\* SQL NULL and Python None.
NULL == <<"NULL">>

\* Python truthiness of an optional text: None and "" are false.
Truthy(v) == v # NULL /\ v # <<>>

\* `v or None`
OrNone(v) == IF Truthy(v) THEN v ELSE NULL

\* The day the clock shows when the program starts.
Day0 == DaysFromCivil(2026, 12, 31)

TimeOfDay == <<"1", "2", ":", "0", "0", ":", "0", "0">>

\* datetime.now().strftime("%Y-%m-%d %H:%M:%S")
FormatDateTime(t) == FormatDate(t) \o <<" ">> \o TimeOfDay

\* The database the operations work on.
DB == [contacts |-> contacts, notes |-> notes, seq |-> sqlite_sequence]

\* How far a run has gone: the rows ever inserted and the days passed.
Growth(db, t) == db.seq.contacts + db.seq.notes + (t - Day0)

Max(S) == CHOOSE x \in S : \A y \in S : y <= x

\* The rowid INTEGER PRIMARY KEY AUTOINCREMENT gives a new row: one more than
\* the largest rowid the table has ever held.
NextRowidReuse(ids, seq) == Max(ids \cup {0}) + 1

NextRowid(ids, seq) == Max(ids \cup {seq}) + 1

\* ORDER BY on a TEXT column: NULL sorts before every text.
KeyLess(a, b) ==
    IF a = NULL THEN b # NULL
    ELSE IF b = NULL THEN FALSE
    ELSE TextLess(a, b)

\* The ids of S as ORDER BY key ASC (desc = FALSE) or DESC (desc = TRUE)
\* returns them; rows with equal keys come in rowid order.
RECURSIVE OrderBy(_, _, _)
OrderBy(S, key, desc) ==
    IF S = {} THEN <<>>
    ELSE LET Before(a, b) ==
                 IF key[a] = key[b] THEN a < b
                 ELSE IF desc THEN KeyLess(key[b], key[a])
                 ELSE KeyLess(key[a], key[b])
             first == CHOOSE a \in S : \A b \in S \ {a} : Before(a, b)
         IN <<first>> \o OrderBy(S \ {first}, key, desc)

\* ------------------------------------------------------------------------
\* Formatting
\* ------------------------------------------------------------------------
Plural(n) == IF n > 1 THEN <<"s">> ELSE <<>>

SignedDecimal(n) == IF n < 0 THEN <<"-">> \o Decimal(0 - n, 1) ELSE Decimal(n, 1)

\* The text a formatting function returns, or the exception it raises.
Text(pieces) == [exc |-> "none", text |-> pieces]

Raise(exc) == [exc |-> exc, text |-> <<>>]

format_duration(t, start_date_str) ==
    IF ~DateValid(start_date_str) THEN Raise("ValueError")
    ELSE LET days == t - ParseDate(start_date_str) IN
         IF days = 0 THEN Text(<<"Today">>)
         ELSE IF days = 1 THEN Text(<<"1 day">>)
         ELSE IF days < 7 THEN Text(<<SignedDecimal(days), " days">>)
         ELSE IF days < 30 THEN
             Text(<<Decimal(days \div 7, 1), " week">> \o Plural(days \div 7))
         ELSE IF days < 365 THEN
             Text(<<Decimal(days \div 30, 1), " month">> \o Plural(days \div 30))
         ELSE LET years == days \div 365
                  months == (days % 365) \div 30
              IN IF months > 0 THEN
                     Text(<<Decimal(years, 1), " year">> \o Plural(years) \o <<", ">>
                              \o <<Decimal(months, 1), " month">> \o Plural(months))
                 ELSE Text(<<Decimal(years, 1), " year">> \o Plural(years))

format_last_contact(t, last_date_str) ==
    IF ~Truthy(last_date_str) THEN Text(<<"Never">>)
    ELSE IF ~DateValid(last_date_str) THEN Raise("ValueError")
    ELSE LET days == t - ParseDate(last_date_str) IN
         IF days = 0 THEN Text(<<"Today">>)
         ELSE IF days = 1 THEN Text(<<"Yesterday">>)
         ELSE IF days < 7 THEN Text(<<SignedDecimal(days), " days ago">>)
         ELSE IF days < 30 THEN
             Text(<<Decimal(days \div 7, 1), " week">> \o Plural(days \div 7)
                      \o <<" ago">>)
         ELSE Text(<<last_date_str, " (", Decimal(days, 1), " days ago)">>)

\* ------------------------------------------------------------------------
\* Store operations.  Each takes the database (and the clock) and gives the
\* database it leaves, the message it prints and the exception it raises.
\* ------------------------------------------------------------------------
Result(db, msg) == [db |-> db, msg |-> msg, exc |-> "none", id |-> 0, rows |-> <<>>]

Raised(db, exc) == [db |-> db, msg |-> "", exc |-> exc, id |-> 0, rows |-> <<>>]

add_contact_today(db, t, name, platform, phone, first_contact_date, status) ==
    LET first == IF ~Truthy(first_contact_date) THEN FormatDate(t)
                 ELSE first_contact_date
        id == NextRowid(DOMAIN db.contacts, db.seq.contacts)
        row == [name               |-> name,
                platform           |-> platform,
                phone              |-> phone,
                first_contact_date |-> first,
                last_contact_date  |-> FormatDate(t),
                status             |-> status,
                created_at         |-> FormatDateTime(t),
                updated_at         |-> FormatDateTime(t)]
    IN [Result([db EXCEPT !.contacts = (id :> row) @@ @, !.seq.contacts = id],
               "Added") EXCEPT !.id = id]

add_contact(db, t, name, platform, phone, first_contact_date, status) ==
    LET first == IF ~Truthy(first_contact_date) THEN FormatDate(t)
                 ELSE first_contact_date
        id == NextRowid(DOMAIN db.contacts, db.seq.contacts)
        row == [name               |-> name,
                platform           |-> platform,
                phone              |-> phone,
                first_contact_date |-> first,
                last_contact_date  |-> first,
                status             |-> status,
                created_at         |-> FormatDateTime(t),
                updated_at         |-> FormatDateTime(t)]
    IN [Result([db EXCEPT !.contacts = (id :> row) @@ @, !.seq.contacts = id],
               "Added") EXCEPT !.id = id]

\* The rows a listing prints, or the ValueError its formatting raises.
Printed(db, t, rows) ==
    IF \E i \in 1..Len(rows) :
           \/ format_duration(t, db.contacts[rows[i]].first_contact_date).exc # "none"
           \/ format_last_contact(t, db.contacts[rows[i]].last_contact_date).exc # "none"
    THEN Raised(db, "ValueError")
    ELSE [Result(db, "Listed") EXCEPT !.rows = rows]

list_contacts(db, t, status_filter, platform_filter) ==
    LET sel == {c \in DOMAIN db.contacts :
                   /\ Truthy(status_filter) => db.contacts[c].status = status_filter
                   /\ Truthy(platform_filter) =>
                          db.contacts[c].platform = platform_filter}
        key == [c \in sel |-> db.contacts[c].last_contact_date]
    IN IF sel = {} THEN Result(db, "NoContacts")
       ELSE Printed(db, t, OrderBy(sel, key, TRUE))

view_contact(db, t, contact_id) ==
    IF contact_id \notin DOMAIN db.contacts THEN Result(db, "NotFound")
    ELSE LET c == db.contacts[contact_id]
             mine == {n \in DOMAIN db.notes : db.notes[n].contact_id = contact_id}
             key == [n \in mine |-> db.notes[n].created_at]
         IN IF \/ format_duration(t, c.first_contact_date).exc # "none"
               \/ format_last_contact(t, c.last_contact_date).exc # "none"
            THEN Raised(db, "ValueError")
            ELSE [Result(db, "Viewed") EXCEPT
                     !.id = contact_id,
                     !.rows = [i \in 1..Cardinality(mine) |->
                                  db.notes[OrderBy(mine, key, TRUE)[i]].note]]

update_contact_touch(db, t, contact_id, kwargs) ==
    IF contact_id \notin DOMAIN db.contacts THEN Result(db, "NotFound")
    ELSE LET updates == {f \in DOMAIN kwargs : kwargs[f] # NULL}
             row == db.contacts[contact_id]
             new == [f \in DOMAIN row |->
                        IF f \in updates THEN kwargs[f]
                        ELSE IF f = "updated_at" THEN FormatDateTime(t)
                        ELSE IF f = "last_contact_date" THEN FormatDate(t)
                        ELSE row[f]]
         IN IF updates = {} THEN Result(db, "NoUpdates")
            ELSE [Result([db EXCEPT !.contacts[contact_id] = new], "Updated")
                     EXCEPT !.id = contact_id]

update_contact(db, t, contact_id, kwargs) ==
    IF contact_id \notin DOMAIN db.contacts THEN Result(db, "NotFound")
    ELSE LET updates == {f \in DOMAIN kwargs : kwargs[f] # NULL}
             row == db.contacts[contact_id]
             new == [f \in DOMAIN row |->
                        IF f \in updates THEN kwargs[f]
                        ELSE IF f = "updated_at" THEN FormatDateTime(t)
                        ELSE row[f]]
         IN IF updates = {} THEN Result(db, "NoUpdates")
            ELSE [Result([db EXCEPT !.contacts[contact_id] = new], "Updated")
                     EXCEPT !.id = contact_id]

add_note_unchecked(db, t, contact_id, note_text) ==
    LET id == NextRowid(DOMAIN db.notes, db.seq.notes)
        row == [contact_id |-> contact_id,
                note       |-> note_text,
                created_at |-> FormatDateTime(t)]
    IN [Result([db EXCEPT !.notes = (id :> row) @@ @, !.seq.notes = id],
               "NoteAdded") EXCEPT !.id = contact_id]

add_note(db, t, contact_id, note_text) ==
    IF contact_id \notin DOMAIN db.contacts THEN Result(db, "NotFound")
    ELSE LET id == NextRowid(DOMAIN db.notes, db.seq.notes)
             row == [contact_id |-> contact_id,
                     note       |-> note_text,
                     created_at |-> FormatDateTime(t)]
         IN [Result([db EXCEPT !.notes = (id :> row) @@ @, !.seq.notes = id],
                    "NoteAdded") EXCEPT !.id = contact_id]

mark_contacted(db, t, contact_id, date) ==
    LET d == IF ~Truthy(date) THEN FormatDate(t) ELSE date
    IN update_contact(db, t, contact_id, [last_contact_date |-> d])

Restrict(f, S) == [x \in S |-> f[x]]

delete_contact_only(db, contact_id) ==
    IF contact_id \notin DOMAIN db.contacts THEN Result(db, "NotFound")
    ELSE [Result([db EXCEPT
                     !.contacts = Restrict(@, DOMAIN @ \ {contact_id})],
                 "Deleted") EXCEPT !.id = contact_id]

delete_contact(db, contact_id) ==
    IF contact_id \notin DOMAIN db.contacts THEN Result(db, "NotFound")
    ELSE [Result([db EXCEPT
                     !.notes = Restrict(@, {n \in DOMAIN @ :
                                               @[n].contact_id # contact_id}),
                     !.contacts = Restrict(@, DOMAIN @ \ {contact_id})],
                 "Deleted") EXCEPT !.id = contact_id]

\* SELECT DISTINCT c.* FROM contacts c LEFT JOIN notes n ON c.id = n.contact_id
\* WHERE c.name LIKE ? OR n.note LIKE ? ORDER BY c.last_contact_date DESC
search_contacts(db, t, search_term) ==
    LET pattern == <<"%">> \o search_term \o <<"%">>
        join == {<<c, n>> \in (DOMAIN db.contacts) \X ((DOMAIN db.notes) \cup {0}) :
                    IF n = 0
                    THEN \A m \in DOMAIN db.notes : db.notes[m].contact_id # c
                    ELSE db.notes[n].contact_id = c}
        hits == {r \in join :
                    \/ Like(db.contacts[r[1]].name, pattern)
                    \/ r[2] # 0 /\ Like(db.notes[r[2]].note, pattern)}
        distinct == {r[1] : r \in hits}
        key == [c \in distinct |-> db.contacts[c].last_contact_date]
    IN IF distinct = {} THEN Result(db, "NoMatch")
       ELSE Printed(db, t, OrderBy(distinct, key, TRUE))

show_reminders(db, t) ==
    LET three_days_ago == FormatDate(t - 3)
        sel == {c \in DOMAIN db.contacts :
                   /\ db.contacts[c].status = <<"a", "c", "t", "i", "v", "e">>
                   /\ \/ db.contacts[c].last_contact_date = NULL
                      \/ /\ db.contacts[c].last_contact_date # NULL
                         /\ TextLess(db.contacts[c].last_contact_date, three_days_ago)}
        key == [c \in sel |-> db.contacts[c].last_contact_date]
        rows == OrderBy(sel, key, FALSE)
    IN IF sel = {} THEN Result(db, "AllContacted")
       ELSE IF \E c \in sel :
                   format_last_contact(t, db.contacts[c].last_contact_date).exc # "none"
       THEN Raised(db, "ValueError")
       ELSE [Result(db, "Reminders") EXCEPT !.rows = rows]

\* ------------------------------------------------------------------------
\* Interactive operations.  What the user answers to the nested prompts is a
\* record of typed texts; an answer may also be an interrupt or an end of
\* input, which input() raises as KeyboardInterrupt or EOFError.
\* ------------------------------------------------------------------------
SIGINT == <<"KeyboardInterrupt">>

EOF == <<"EOFError">>

IsRaise(v) == v = SIGINT \/ v = EOF

\* The exception the first interrupted prompt of a sequence of answers raises.
RECURSIVE FirstRaise(_)
FirstRaise(answers) ==
    IF answers = <<>> THEN "none"
    ELSE IF IsRaise(Head(answers)) THEN Head(answers)[1]
    ELSE FirstRaise(Tail(answers))

interactive_add(db, t, a) ==
    IF IsRaise(a.name) THEN Raised(db, a.name[1])
    ELSE IF Strip(a.name) = <<>> THEN Result(db, "NameRequired")
    ELSE IF FirstRaise(<<a.platform, a.phone, a.first_contact, a.status>>) # "none"
    THEN Raised(db, FirstRaise(<<a.platform, a.phone, a.first_contact, a.status>>))
    ELSE LET first_contact == IF Strip(a.first_contact) = <<>> THEN FormatDate(t)
                              ELSE Strip(a.first_contact)
             status == IF Strip(a.status) = <<>> THEN <<"a", "c", "t", "i", "v", "e">> ELSE Strip(a.status)
             added == add_contact(db, t, Strip(a.name), OrNone(Strip(a.platform)),
                                  OrNone(Strip(a.phone)), first_contact, status)
         IN IF IsRaise(a.initial_note)
            THEN [Raised(added.db, a.initial_note[1]) EXCEPT !.id = added.id]
            ELSE IF Strip(a.initial_note) # <<>>
            THEN [add_note(added.db, t, added.id, Strip(a.initial_note))
                     EXCEPT !.msg = "Added"]
            ELSE added

interactive_update(db, t, contact_id, u) ==
    IF contact_id \notin DOMAIN db.contacts THEN Result(db, "NotFound")
    ELSE IF FirstRaise(<<u.name, u.platform, u.phone, u.status>>) # "none"
    THEN Raised(db, FirstRaise(<<u.name, u.platform, u.phone, u.status>>))
    ELSE LET updates == {f \in DOMAIN u : Truthy(OrNone(Strip(u[f])))}
         IN IF updates # {}
            THEN update_contact(db, t, contact_id, [f \in updates |-> Strip(u[f])])
            ELSE Result(db, "NoChanges")

\* ------------------------------------------------------------------------
\* What the user may type
\* ------------------------------------------------------------------------
Lines ==
    { <<" ", " ">>,
      <<"q", "u", "i", "t">>, <<"E", "X", "I", "T">>, <<" ", "q", " ">>,
      <<"h", "e", "l", "p">>,
      <<"l", "i", "s", "t">>,
      <<"a", "d", "d">>,
      <<"v", "i", "e", "w">>, <<"v", "i", "e", "w", " ", "1">>, <<"v", "i", "e", "w", " ", "x">>, <<"v", "i", "e", "w", " ", "9">>,
      <<"u", "p", "d", "a", "t", "e">>, <<"u", "p", "d", "a", "t", "e", " ", "1">>, <<"u", "p", "d", "a", "t", "e", " ", "x">>, <<"u", "p", "d", "a", "t", "e", " ", "9">>,
      <<"d", "e", "l", "e", "t", "e">>, <<"d", "e", "l", "e", "t", "e", " ", "1">>, <<"d", "e", "l", "e", "t", "e", " ", "x">>, <<"d", "e", "l", "e", "t", "e", " ", "9">>,
      <<"n", "o", "t", "e", " ", "1">>, <<"n", "o", "t", "e", " ", "1", " ", "G", "r", "e", "a", "t", " ", " ", "f", "i", "r", "s", "t", " ", "d", "a", "t", "e">>, <<"n", "o", "t", "e", " ", "x", " ", "h", "i">>, <<"n", "o", "t", "e", " ", "9", " ", "h", "i">>,
      <<"c", "o", "n", "t", "a", "c", "t", "e", "d">>, <<"c", "o", "n", "t", "a", "c", "t", "e", "d", " ", "1">>, <<"c", "o", "n", "t", "a", "c", "t", "e", "d", " ", "1", " ", "2", "0", "2", "6", "-", "1", "2", "-", "2", "8">>,
      <<"c", "o", "n", "t", "a", "c", "t", "e", "d", " ", "2", " ", "2", "0", "2", "6", "-", "9", "-", "1">>, <<"c", "o", "n", "t", "a", "c", "t", "e", "d", " ", "x">>, <<"c", "o", "n", "t", "a", "c", "t", "e", "d", " ", "9">>,
      <<"s", "e", "a", "r", "c", "h">>, <<"s", "e", "a", "r", "c", "h", " ", "A">>, <<"s", "e", "a", "r", "c", "h", " ", "_">>,
      <<"r", "e", "m", "i", "n", "d", "e", "r", "s">>,
      <<"b", "o", "g", "u", "s", " ", "1">> }

NoAnswers == <<>>

AddAnswers ==
    { [name |-> <<"A", "l">>, platform |-> <<>>, phone |-> <<>>, first_contact |-> <<>>,
       status |-> <<>>, initial_note |-> <<>>],
      [name |-> <<" ", "B", "o", " ">>, platform |-> <<"H", "i", "n", "g", "e">>, phone |-> <<"5", "5", "5">>,
       first_contact |-> <<"2", "0", "2", "6", "-", "1", "2", "-", "2", "8">>, status |-> <<"D", "a", "t", "i", "n", "g">>,
       initial_note |-> <<"M", "e", "t", " ", "A", "l">>],
      [name |-> <<" ", " ">>, platform |-> <<>>, phone |-> <<>>, first_contact |-> <<>>,
       status |-> <<>>, initial_note |-> <<>>],
      [name |-> <<"C", "y">>, platform |-> <<>>, phone |-> <<>>, first_contact |-> <<>>,
       status |-> <<>>, initial_note |-> SIGINT] }

UpdateAnswers ==
    { [name |-> <<>>, platform |-> <<>>, phone |-> <<" ">>, status |-> <<>>],
      [name |-> <<"D", "i">>, platform |-> <<>>, phone |-> <<>>, status |-> <<"e", "n", "d", "e", "d">>],
      [name |-> <<>>, platform |-> <<>>, phone |-> <<>>, status |-> EOF] }

ConfirmAnswers == { <<"y", "e", "s">>, <<"Y", "E", "S">>, <<"y">>, <<"n", "o">>, <<>>, SIGINT }

\* ------------------------------------------------------------------------
\* The command loop of main
\* ------------------------------------------------------------------------
Command(line) == Lower(Strip(line))

Parts(line) == Split(Command(line), 2)

\* The branch of the if/elif chain a line takes.
Branch(line) ==
    LET parts == Parts(line) IN
    IF Command(line) = <<>> THEN "empty"
    ELSE IF parts[1] \in {<<"q", "u", "i", "t">>, <<"e", "x", "i", "t">>, <<"q">>} THEN "quit"
    ELSE IF parts[1] \in {<<"h", "e", "l", "p">>, <<"l", "i", "s", "t">>, <<"a", "d", "d">>, <<"v", "i", "e", "w">>, <<"u", "p", "d", "a", "t", "e">>, <<"d", "e", "l", "e", "t", "e">>,
                          <<"n", "o", "t", "e">>, <<"c", "o", "n", "t", "a", "c", "t", "e", "d">>, <<"s", "e", "a", "r", "c", "h">>, <<"r", "e", "m", "i", "n", "d", "e", "r", "s">>}
    THEN CHOOSE w \in {"help", "list", "add", "view", "update", "delete",
                       "note", "contacted", "search", "reminders"} :
             \E ws \in {<<"help", <<"h", "e", "l", "p">>>>, <<"list", <<"l", "i", "s", "t">>>>, <<"add", <<"a", "d", "d">>>>,
                        <<"view", <<"v", "i", "e", "w">>>>, <<"update", <<"u", "p", "d", "a", "t", "e">>>>,
                        <<"delete", <<"d", "e", "l", "e", "t", "e">>>>, <<"note", <<"n", "o", "t", "e">>>>,
                        <<"contacted", <<"c", "o", "n", "t", "a", "c", "t", "e", "d">>>>, <<"search", <<"s", "e", "a", "r", "c", "h">>>>,
                        <<"reminders", <<"r", "e", "m", "i", "n", "d", "e", "r", "s">>>>} :
                 ws[1] = w /\ ws[2] = parts[1]
    ELSE "unknown"

\* The typed lines by the branch they take, and their parts.
LinesOf ==
    [b \in {"empty", "quit", "help", "list", "add", "view", "update", "delete",
            "note", "contacted", "search", "reminders", "unknown"} |->
        {line \in Lines : Branch(line) = b}]

PartsOf == [line \in Lines |-> Parts(line)]

FinishUncaught(line, cmd, answers, id, r, guarded) ==
    /\ contacts' = r.db.contacts
    /\ notes' = r.db.notes
    /\ sqlite_sequence' = r.db.seq
    /\ now' = now
    /\ pc' = IF r.exc = "none" \/ (r.exc = "ValueError" /\ guarded)
             THEN "prompt" ELSE "exited"
    /\ out' = [line    |-> line,
               answers |-> answers,
               cmd     |-> cmd,
               id      |-> id,
               msg     |-> IF r.exc = "KeyboardInterrupt" THEN "Goodbye"
                           ELSE IF r.exc = "ValueError" /\ guarded THEN "InvalidID"
                           ELSE IF r.exc # "none" THEN "Error"
                           ELSE r.msg,
               rows    |-> r.rows]

\* The end of one turn of the loop: the store the operation left, the
\* handlers of main applied to what it raised, and what was printed.
\* guarded: the operation ran inside a try ... except ValueError block.
Finish(line, cmd, answers, id, r, guarded) ==
    /\ contacts' = r.db.contacts
    /\ notes' = r.db.notes
    /\ sqlite_sequence' = r.db.seq
    /\ now' = now
    /\ pc' = IF r.exc = "KeyboardInterrupt" THEN "exited" ELSE "prompt"
    /\ out' = [line    |-> line,
               answers |-> answers,
               cmd     |-> cmd,
               id      |-> id,
               msg     |-> IF r.exc = "KeyboardInterrupt" THEN "Goodbye"
                           ELSE IF r.exc = "ValueError" /\ guarded THEN "InvalidID"
                           ELSE IF r.exc # "none" THEN "Error"
                           ELSE r.msg,
               rows    |-> r.rows]

Init ==
    /\ contacts = <<>>
    /\ notes = <<>>
    /\ sqlite_sequence = [contacts |-> 0, notes |-> 0]
    /\ now = Day0
    /\ pc = "prompt"
    /\ out = [line |-> <<>>, answers |-> NoAnswers, cmd |-> "start", id |-> 0,
              msg |-> "Banner", rows |-> <<>>]

\* Time passes while the program waits at the prompt.
Tick ==
    /\ pc = "prompt"
    /\ Growth(DB, now + 1) <= MaxGrowth
    /\ now' = now + 1
    /\ UNCHANGED <<contacts, notes, sqlite_sequence, pc, out>>

\* input() at the prompt raises KeyboardInterrupt.
Interrupt ==
    /\ pc = "prompt"
    /\ pc' = "exited"
    /\ out' = [line |-> SIGINT, answers |-> NoAnswers, cmd |-> "interrupt", id |-> 0,
               msg |-> "Goodbye", rows |-> <<>>]
    /\ UNCHANGED <<contacts, notes, sqlite_sequence, now>>

\* input() at the prompt raises EOFError, which the loop reports as an error.
EndOfInput ==
    /\ pc = "prompt"
    /\ out' = [line |-> EOF, answers |-> NoAnswers, cmd |-> "eof", id |-> 0,
               msg |-> "Error", rows |-> <<>>]
    /\ UNCHANGED <<contacts, notes, sqlite_sequence, now, pc>>

EmptyLine ==
    /\ pc = "prompt"
    /\ \E line \in LinesOf["empty"] :
        Finish(line, "empty", NoAnswers, 0, Result(DB, ""), FALSE)

\* quit, exit and q break out of the loop.
Quit ==
    /\ pc = "prompt"
    /\ \E line \in LinesOf["quit"] :
        /\ pc' = "exited"
        /\ out' = [line |-> line, answers |-> NoAnswers, cmd |-> "quit", id |-> 0,
                   msg |-> "Goodbye", rows |-> <<>>]
    /\ UNCHANGED <<contacts, notes, sqlite_sequence, now>>

Help ==
    /\ pc = "prompt"
    /\ \E line \in LinesOf["help"] :
        Finish(line, "help", NoAnswers, 0, Result(DB, "Help"), FALSE)

Unknown ==
    /\ pc = "prompt"
    /\ \E line \in LinesOf["unknown"] :
        Finish(line, "unknown", NoAnswers, 0, Result(DB, "Unknown"), FALSE)

List ==
    /\ pc = "prompt"
    /\ \E line \in LinesOf["list"] :
        LET parts == PartsOf[line]
            status_filter == IF Len(parts) > 1 THEN parts[2] ELSE NULL
            platform_filter == IF Len(parts) > 2 THEN parts[3] ELSE NULL
        IN Finish(line, "list", NoAnswers, 0,
                  list_contacts(DB, now, status_filter, platform_filter), FALSE)

Add ==
    /\ pc = "prompt"
    /\ \E line \in LinesOf["add"], a \in AddAnswers :
        LET r == interactive_add(DB, now, a) IN
        /\ Growth(r.db, now) <= MaxGrowth
        /\ Finish(line, "add", a, r.id, r, FALSE)

View ==
    /\ pc = "prompt"
    /\ \E line \in LinesOf["view"] :
        LET parts == PartsOf[line] IN
        IF Len(parts) < 2
        THEN Finish(line, "view", NoAnswers, 0, Result(DB, "Usage"), FALSE)
        ELSE IF ~IntValid(parts[2])
        THEN Finish(line, "view", NoAnswers, 0, Raised(DB, "ValueError"), TRUE)
        ELSE Finish(line, "view", NoAnswers, ParseInt(parts[2]),
                    view_contact(DB, now, ParseInt(parts[2])), TRUE)

Update ==
    /\ pc = "prompt"
    /\ \E line \in LinesOf["update"], u \in UpdateAnswers :
        LET parts == PartsOf[line] IN
        IF Len(parts) < 2
        THEN Finish(line, "update", NoAnswers, 0, Result(DB, "Usage"), FALSE)
        ELSE IF ~IntValid(parts[2])
        THEN Finish(line, "update", NoAnswers, 0, Raised(DB, "ValueError"), TRUE)
        ELSE IF ParseInt(parts[2]) \notin DOMAIN contacts
        THEN Finish(line, "update", NoAnswers, ParseInt(parts[2]),
                    interactive_update(DB, now, ParseInt(parts[2]), u), TRUE)
        ELSE Finish(line, "update", u, ParseInt(parts[2]),
                    interactive_update(DB, now, ParseInt(parts[2]), u), TRUE)

\* confirm.lower() == 'yes'
ConfirmedLoose(confirm) == confirm # <<>> /\ Head(Lower(confirm)) = "y"

Confirmed(confirm) == Lower(confirm) = <<"y", "e", "s">>

Delete ==
    /\ pc = "prompt"
    /\ \E line \in LinesOf["delete"], confirm \in ConfirmAnswers :
        LET parts == PartsOf[line] IN
        IF Len(parts) < 2
        THEN Finish(line, "delete", NoAnswers, 0, Result(DB, "Usage"), FALSE)
        ELSE IF ~IntValid(parts[2])
        THEN Finish(line, "delete", NoAnswers, 0, Raised(DB, "ValueError"), TRUE)
        ELSE IF IsRaise(confirm)
        THEN Finish(line, "delete", [confirm |-> confirm], ParseInt(parts[2]),
                    Raised(DB, confirm[1]), TRUE)
        ELSE IF Confirmed(confirm)
        THEN Finish(line, "delete", [confirm |-> confirm], ParseInt(parts[2]),
                    delete_contact(DB, ParseInt(parts[2])), TRUE)
        ELSE Finish(line, "delete", [confirm |-> confirm], ParseInt(parts[2]),
                    Result(DB, "Cancelled"), TRUE)

Note ==
    /\ pc = "prompt"
    /\ \E line \in LinesOf["note"] :
        LET parts == PartsOf[line] IN
        IF Len(parts) < 3
        THEN Finish(line, "note", NoAnswers, 0, Result(DB, "Usage"), FALSE)
        ELSE IF ~IntValid(parts[2])
        THEN Finish(line, "note", NoAnswers, 0, Raised(DB, "ValueError"), TRUE)
        ELSE LET r == add_note(DB, now, ParseInt(parts[2]), parts[3]) IN
             /\ Growth(r.db, now) <= MaxGrowth
             /\ Finish(line, "note", NoAnswers, ParseInt(parts[2]), r, TRUE)

Contacted ==
    /\ pc = "prompt"
    /\ \E line \in LinesOf["contacted"] :
        LET parts == PartsOf[line]
            date == IF Len(parts) > 2 THEN parts[3] ELSE NULL
        IN IF Len(parts) < 2
           THEN Finish(line, "contacted", NoAnswers, 0, Result(DB, "Usage"), FALSE)
           ELSE IF ~IntValid(parts[2])
           THEN Finish(line, "contacted", NoAnswers, 0, Raised(DB, "ValueError"), TRUE)
           ELSE Finish(line, "contacted", NoAnswers, ParseInt(parts[2]),
                       mark_contacted(DB, now, ParseInt(parts[2]), date), TRUE)

Search ==
    /\ pc = "prompt"
    /\ \E line \in LinesOf["search"] :
        LET parts == PartsOf[line] IN
        IF Len(parts) < 2
        THEN Finish(line, "search", NoAnswers, 0, Result(DB, "Usage"), FALSE)
        ELSE Finish(line, "search", NoAnswers, 0,
                    search_contacts(DB, now, parts[2]), FALSE)

Reminders ==
    /\ pc = "prompt"
    /\ \E line \in LinesOf["reminders"] :
        Finish(line, "reminders", NoAnswers, 0, show_reminders(DB, now), FALSE)

Next ==
    \/ Tick
    \/ Interrupt
    \/ EndOfInput
    \/ EmptyLine
    \/ Quit
    \/ Help
    \/ Unknown
    \/ List
    \/ Add
    \/ View
    \/ Update
    \/ Delete
    \/ Note
    \/ Contacted
    \/ Search
    \/ Reminders

Spec == Init /\ [][Next]_vars

\* ------------------------------------------------------------------------
\* Properties
\* ------------------------------------------------------------------------
Range(f) == {f[x] : x \in DOMAIN f}

\* The tokens of the line of the last command, as main splits them.
TypedParts(o) == PartsOf[o.line]

\* The last command was typed at the prompt (it is not an interrupt or an
\* end of input there).
TypedLine(o) == o.cmd \notin {"start", "interrupt", "eof"}

\* The notes of a contact.
NotesOf(ns, id) == {n \in DOMAIN ns : ns[n].contact_id = id}

\* C1: every stored note belongs to a contact that exists.
C1_NoOrphanNote ==
    \A n \in DOMAIN notes : notes[n].contact_id \in DOMAIN contacts

\* A contact that owned a note has just been deleted.
C1_Witness ==
    /\ out.cmd = "delete" /\ out.msg = "Deleted"
    /\ sqlite_sequence.notes > 0
    /\ DOMAIN notes = {}

\* C2: a successful delete removes the contact and its notes and nothing
\* else, and an id that has been handed out and is gone stays gone: no later
\* step creates a contact or a note under it.
C2_DeleteIsFinal ==
    [][ /\ \A id \in 1..sqlite_sequence.contacts :
               id \notin DOMAIN contacts =>
                   /\ id \notin DOMAIN contacts'
                   /\ NotesOf(notes', id) = {}
        /\ (now' = now /\ out'.cmd = "delete" /\ out'.msg = "Deleted") =>
               /\ out'.id \in DOMAIN contacts
               /\ DOMAIN contacts' = DOMAIN contacts \ {out'.id}
               /\ \A c \in DOMAIN contacts' : contacts'[c] = contacts[c]
               /\ DOMAIN notes' = DOMAIN notes \ NotesOf(notes, out'.id)
               /\ \A n \in DOMAIN notes' : notes'[n] = notes[n]
      ]_vars

\* A contact has been created after another one was deleted.
C2_Witness ==
    /\ out.cmd = "add" /\ out.msg = "Added"
    /\ \E id \in 1..(out.id - 1) : id \notin DOMAIN contacts

\* The fields add stores for the answers a, on day t, but for the last
\* contact date.
StoredAsTyped(c, a, t) ==
    /\ c.name = Strip(a.name)
    /\ c.platform = (IF Strip(a.platform) = <<>> THEN NULL ELSE Strip(a.platform))
    /\ c.phone = (IF Strip(a.phone) = <<>> THEN NULL ELSE Strip(a.phone))
    /\ c.status = (IF Strip(a.status) = <<>> THEN <<"a", "c", "t", "i", "v", "e">> ELSE Strip(a.status))
    /\ c.first_contact_date =
           (IF Strip(a.first_contact) = <<>> THEN FormatDate(t)
            ELSE Strip(a.first_contact))

AddStep == now' = now /\ out'.cmd = "add" /\ out'.msg = "Added"

\* C3, as amended: a contact just created holds the name, platform, phone,
\* status and first contact date that were given, status defaulting to
\* active and the first contact date to today, and its last contact date
\* equals its first contact date.
C3_CreateReadRoundTrip ==
    [][ AddStep =>
            /\ out'.id \notin DOMAIN contacts
            /\ out'.id \in DOMAIN contacts'
            /\ StoredAsTyped(contacts'[out'.id], out'.answers, now)
            /\ contacts'[out'.id].last_contact_date =
                   contacts'[out'.id].first_contact_date
      ]_vars

\* A contact has just been created with a first contact date that was typed.
C3_Witness ==
    /\ out.cmd = "add" /\ out.msg = "Added"
    /\ Strip(out.answers.first_contact) # <<>>
    /\ out.id \in DOMAIN contacts
    /\ contacts[out.id].last_contact_date = Strip(out.answers.first_contact)

\* C3 as claimed: the last contact date of a new contact is the creation day
\* for every input.
C3_LastContactIsCreationDay ==
    [][ AddStep =>
            /\ StoredAsTyped(contacts'[out'.id], out'.answers, now)
            /\ contacts'[out'.id].last_contact_date = FormatDate(now)
      ]_vars

\* The last command was delete <numeric id> and the confirmation prompt was
\* answered with a text.
DeleteAnswered(o) ==
    /\ o.cmd = "delete"
    /\ "confirm" \in DOMAIN o.answers
    /\ ~IsRaise(o.answers.confirm)

\* C4, as amended: delete <id> leaves contacts and notes as they were unless
\* the answer to the confirmation prompt is yes in some letter case.
C4_DeleteNeedsYes ==
    [][ (now' = now /\ DeleteAnswered(out')
             /\ Lower(out'.answers.confirm) # <<"y", "e", "s">>) =>
            (contacts' = contacts /\ notes' = notes)
      ]_vars

\* The deletion of an existing contact has just been declined.
C4_Witness ==
    /\ DeleteAnswered(out)
    /\ out.answers.confirm = <<"y">>
    /\ out.id \in DOMAIN contacts

\* C4 as claimed: the store is unchanged unless the answer is exactly yes.
C4_DeleteNeedsExactYes ==
    [][ (now' = now /\ DeleteAnswered(out') /\ out'.answers.confirm # <<"y", "e", "s">>) =>
            (contacts' = contacts /\ notes' = notes)
      ]_vars

\* An interrupt arrived at the prompt or at a nested prompt of the command.
Interrupted(o) ==
    \/ o.cmd = "interrupt"
    \/ \E f \in DOMAIN o.answers : o.answers[f] = SIGINT

\* C5: the loop is left only on quit, exit or q, or on an interrupt; after
\* any other input the program is at the prompt again.
C5_ExitOnlyOnQuitOrInterrupt ==
    [][ pc' = "exited" =>
            \/ Interrupted(out')
            \/ /\ TypedLine(out')
               /\ TypedParts(out') # <<>>
               /\ TypedParts(out')[1] \in {<<"q", "u", "i", "t">>, <<"e", "x", "i", "t">>, <<"q">>}
      ]_vars

\* An operation has raised an error and the program is at the prompt.
C5_Witness ==
    /\ pc = "prompt"
    /\ out.cmd = "update" /\ out.msg = "Error"

\* The command of the last line is one of view, update, delete, note and
\* contacted, and it lacks an argument, or its id is not a number, or its id
\* is the id of no contact of cs.
ErrorCase(o, cs) ==
    /\ TypedLine(o)
    /\ o.cmd \in {"view", "update", "delete", "note", "contacted"}
    /\ LET parts == TypedParts(o) IN
       \/ Len(parts) < (IF o.cmd = "note" THEN 3 ELSE 2)
       \/ ~IntValid(parts[2])
       \/ ParseInt(parts[2]) \notin DOMAIN cs

\* C6: a command in error leaves contacts and notes as they were.
C6_ErrorsHaveNoEffect ==
    [][ (now' = now /\ ErrorCase(out', contacts)) =>
            (contacts' = contacts /\ notes' = notes)
      ]_vars

\* A contacted command has just named a contact that does not exist, with
\* other contacts in the store.
C6_Witness ==
    /\ out.cmd = "contacted" /\ out.msg = "NotFound"
    /\ DOMAIN contacts # {}

\* C7 as claimed: note <id> <text> on an existing contact adds one note to
\* it, whose body is the rest of the line as typed, and changes nothing else.
C7_NoteStoredAsTyped ==
    [][ (now' = now /\ out'.cmd = "note" /\ TypedLine(out')
             /\ Len(TypedParts(out')) = 3
             /\ IntValid(TypedParts(out')[2])
             /\ ParseInt(TypedParts(out')[2]) \in DOMAIN contacts) =>
            /\ contacts' = contacts
            /\ \E n \in DOMAIN notes' \ DOMAIN notes :
                   /\ DOMAIN notes' = DOMAIN notes \cup {n}
                   /\ notes'[n].contact_id = ParseInt(TypedParts(out')[2])
                   /\ notes'[n].note = Split(Strip(out'.line), 2)[3]
            /\ \A n \in DOMAIN notes : notes'[n] = notes[n]
      ]_vars

\* The day a stored date text stands for is before day t.
Earlier(date, t) == DateValid(date) /\ ParseDate(date) < t

\* The day text a stands for is before the day text b stands for.
Before(a, b) == DateValid(a) /\ DateValid(b) /\ ParseDate(a) < ParseDate(b)

\* C8 as claimed: reminders lists a contact exactly if it is active and its
\* last contact date is before today minus 3 days or absent, in ascending
\* order of last contact date.
C8_StaleSelection ==
    [][ (now' = now /\ out'.cmd = "reminders") =>
            /\ \A c \in DOMAIN contacts' :
                   c \in Range(out'.rows) <=>
                       /\ contacts'[c].status = <<"a", "c", "t", "i", "v", "e">>
                       /\ \/ contacts'[c].last_contact_date = NULL
                          \/ Earlier(contacts'[c].last_contact_date, now - 3)
            /\ \A i, j \in 1..Len(out'.rows) :
                   i < j => ~Before(contacts'[out'.rows[j]].last_contact_date,
                                    contacts'[out'.rows[i]].last_contact_date)
      ]_vars

\* text contains term, letter case aside.
Contains(text, term) ==
    \E i \in 0..(Len(text) - Len(term)) :
        Lower(SubSeq(text, i + 1, i + Len(term))) = Lower(term)

\* C9 as claimed: search lists a contact exactly if its name or one of its
\* notes contains the term, and lists no contact twice.
C9_SearchBySubstring ==
    (out.cmd = "search" /\ Len(TypedParts(out)) >= 2) =>
        LET term == TypedParts(out)[2] IN
        /\ \A c \in DOMAIN contacts :
               c \in Range(out.rows) <=>
                   \/ Contains(contacts[c].name, term)
                   \/ \E n \in NotesOf(notes, c) : Contains(notes[n].note, term)
        /\ \A i, j \in 1..Len(out.rows) : out.rows[i] = out.rows[j] => i = j

\* The fields an update or contacted command supplies, with their values.
Supplied(o, t) ==
    IF o.cmd = "contacted"
    THEN [last_contact_date |->
              IF Len(TypedParts(o)) > 2 THEN TypedParts(o)[3] ELSE FormatDate(t)]
    ELSE IF \E f \in DOMAIN o.answers : IsRaise(o.answers[f])
    THEN <<>>
    ELSE [f \in {g \in DOMAIN o.answers : Strip(o.answers[g]) # <<>>} |->
              Strip(o.answers[f])]

\* C10: an update or contacted command on an existing contact changes the
\* fields it supplies and updated_at, or nothing when it supplies none, and
\* no other contact and no note; and no step changes the first contact date
\* or the creation time of a contact.
C10_UpdateFrame ==
    [][ /\ (now' = now /\ out'.cmd \in {"update", "contacted"} /\ TypedLine(out')
                /\ out'.id \in DOMAIN contacts) =>
               LET id == out'.id
                   given == Supplied(out', now)
               IN /\ notes' = notes
                  /\ DOMAIN contacts' = DOMAIN contacts
                  /\ \A c \in DOMAIN contacts \ {id} : contacts'[c] = contacts[c]
                  /\ \A f \in DOMAIN contacts[id] :
                         contacts'[id][f] =
                             IF f \in DOMAIN given THEN given[f]
                             ELSE IF f = "updated_at" /\ DOMAIN given # {}
                             THEN FormatDateTime(now)
                             ELSE contacts[id][f]
        /\ \A c \in DOMAIN contacts \cap DOMAIN contacts' :
               /\ contacts'[c].first_contact_date = contacts[c].first_contact_date
               /\ contacts'[c].created_at = contacts[c].created_at
      ]_vars

\* A contact has just been updated on a later day than it was created.
C10_Witness ==
    /\ out.cmd = "update" /\ out.msg = "Updated"
    /\ out.id \in DOMAIN contacts
    /\ contacts[out.id].updated_at # contacts[out.id].created_at
    /\ contacts[out.id].name = <<"D", "i">>

====
